---- MODULE Spec2Model ----
(***************************************************************************)
(* Model of the Gerber-to-SVG plotter state machine (src/src/lib.rs,       *)
(* src/src/geometry/point.rs).                                             *)
(*                                                                         *)
(* Numbers.  Every f64 length or coordinate is an integer count of eighths *)
(* (1.0 is 8, 0.5 is 4, 5.0 is 40); the f32 scale is an integer count of   *)
(* halves (1.0 is 2, 0.5 is 1, 2.0 is 4).  All lengths of the model are    *)
(* multiples of 0.5, so every product and quotient the code computes is an *)
(* exact integer here.  Option<T> is a set with no or one element.         *)
(***************************************************************************)
EXTENDS Integers, Sequences, FiniteSets, TLC

\* self: the Gerber2SVG value; len: gerber_doc.commands.len(); commands: the
\* commands of gerber_doc.commands the loop of build() has reached, in order;
\* pc: the place of the caller (file, imported, new, build, built, final);
\* file: what opening and parsing the file of from_file yields, none when the
\* renderer comes from from_gerber_doc; imported: the result of from_file
VARIABLES self, len, commands, pc, file, imported

vars == <<self, len, commands, pc, file, imported>>

----------------------------------------------------------------------------
(* Bounds of the model *)

\* the longest command stream of Spec
MaxCmds == 3

\* the length of the command streams of SpecLong
LongCmds == 4

\* the most command entries of a parsed document of SpecImport
MaxParsed == 2

----------------------------------------------------------------------------
(* Values *)

\* f64::INFINITY; f64::NEG_INFINITY is -Inf
Inf == 1000000

NegInf == -Inf

\* the result of inf - inf
NaN == Inf + 1

None == {}

Some(v) == {v}

unwrap(o) == CHOOSE v \in o : TRUE

Point(x, y) == [x |-> x, y |-> y]

\* values a coordinate axis carries (5.0), absent or present
AxisValues == {40}

OptAxis == {None} \cup {Some(v) : v \in AxisValues}

Coordinates == [x : OptAxis, y : OptAxis]

OptCoordinates == {None} \cup {Some(c) : c \in Coordinates}

\* a CoordinateOffset (the arc centre); only its presence is read
OptOffset == {None, Some([x |-> None, y |-> None])}

InterpolationModes == {"Linear", "ClockwiseCircular", "CounterClockwiseCircular"}

\* gerber_doc.apertures: 1 Circle 2.0, 2 Circle 0.5, 3 Rectangle 2.0 x 1.0,
\* 4 Obround, 5 Polygon, 6 Macro
ApertureDict ==
    (1 :> [type |-> "Circle", diameter |-> 16]) @@
    (2 :> [type |-> "Circle", diameter |-> 4]) @@
    (3 :> [type |-> "Rectangle", x |-> 16, y |-> 8]) @@
    (4 :> [type |-> "Obround"]) @@
    (5 :> [type |-> "Polygon"]) @@
    (6 :> [type |-> "Macro"])

\* the ids a SelectAperture carries: the dictionary's and one it does not hold
ApertureIds == DOMAIN ApertureDict \cup {9}

\* the values set_scale is called with: -1.0, 0.0, 0.5, 1.0, 2.0
ScaleArgs == {-2, 0, 1, 2, 4}

Command ==
    [op : {"Interpolate"}, coord : OptCoordinates, offset : OptOffset] \cup
    [op : {"Move"}, coord : OptCoordinates] \cup
    [op : {"Flash"}, coord : OptCoordinates] \cup
    [op : {"SelectAperture"}, id : ApertureIds] \cup
    [op : {"InterpolationMode"}, mode : InterpolationModes] \cup
    [op : {"Comment", "GCodeOther", "MCode", "ExtendedCode", "Err"}]

----------------------------------------------------------------------------
(* f64 arithmetic on the extended reals *)

f64_min(a, b) == IF a < b THEN a ELSE b

f64_max(a, b) == IF a > b THEN a ELSE b

f64_sub(a, b) ==
    IF a = NaN \/ b = NaN THEN NaN
    ELSE IF a = Inf THEN (IF b = Inf THEN NaN ELSE Inf)
    ELSE IF a = NegInf THEN (IF b = NegInf THEN NaN ELSE NegInf)
    ELSE IF b = Inf THEN NegInf
    ELSE IF b = NegInf THEN Inf
    ELSE a - b

\* the scale is not applied
mul_scale_unscaled(v, scale) == v

\* v * (scale as f64)
mul_scale(v, scale) == (v * scale) \div 2

----------------------------------------------------------------------------
(* Point *)

from_coordinates(coord, default) ==
    [x |-> IF coord.x = None THEN default.x ELSE unwrap(coord.x),
     y |-> IF coord.y = None THEN default.y ELSE unwrap(coord.y)]

from_option_coordinates(coord, default) ==
    IF coord = None THEN default ELSE from_coordinates(unwrap(coord), default)

----------------------------------------------------------------------------
(* Gerber2SVG *)

\* a record of the log crate at the given level
Log(g, level) == [g EXCEPT !.log = Append(@, level)]

\* a failed expect(): the thread unwinds, nothing after it runs
Panic(g) == [g EXCEPT !.panicked = TRUE]

from_gerber_doc ==
    [apertures |-> ApertureDict,
     scale |-> 2,
     draw_state |-> "Linear",
     position |-> Point(0, 0),
     selected_aperture |-> None,
     svg_document |-> [children |-> <<>>, width |-> None, height |-> None],
     current_path_data |-> <<>>,
     min_x |-> Inf,
     max_x |-> NegInf,
     min_y |-> Inf,
     max_y |-> NegInf,
     log |-> <<>>,
     panicked |-> FALSE]

\* a scale of 0.0 is accepted
set_scale_zero(g, scale) ==
    IF scale >= 0 THEN [g EXCEPT !.scale = scale] ELSE Log(g, "warn")

set_scale(g, scale) ==
    IF scale > 0 THEN [g EXCEPT !.scale = scale] ELSE Log(g, "warn")

\* the lower bounds are not padded
check_bbox_unpadded(g, pos_x, pos_y, stroke_x, stroke_y) ==
    [g EXCEPT !.min_x = f64_min(pos_x, g.min_x),
              !.max_x = f64_max(pos_x + stroke_x, g.max_x),
              !.min_y = f64_min(pos_y, g.min_y),
              !.max_y = f64_max(pos_y + stroke_y, g.max_y)]

check_bbox(g, pos_x, pos_y, stroke_x, stroke_y) ==
    [g EXCEPT !.min_x = f64_min(pos_x - stroke_x, g.min_x),
              !.max_x = f64_max(pos_x + stroke_x, g.max_x),
              !.min_y = f64_min(pos_y - stroke_y, g.min_y),
              !.max_y = f64_max(pos_y + stroke_y, g.max_y)]

\* the stroke is the radius
get_path_stroke_radius(g) ==
    IF g.selected_aperture = None THEN [g |-> Panic(g), stroke |-> 0]
    ELSE LET a == unwrap(g.selected_aperture) IN
         IF a.type = "Circle" THEN [g |-> g, stroke |-> a.diameter \div 2]
         ELSE [g |-> Log(g, "warn"), stroke |-> 0]

\* no aperture selected gives a stroke of 0.0 instead of a panic
get_path_stroke_or_zero(g) ==
    IF g.selected_aperture = None THEN [g |-> Log(g, "warn"), stroke |-> 0]
    ELSE LET a == unwrap(g.selected_aperture) IN
         IF a.type = "Circle" THEN [g |-> g, stroke |-> a.diameter]
         ELSE [g |-> Log(g, "warn"), stroke |-> 0]

\* the stroke and the renderer after the call (its log, or the panic)
get_path_stroke(g) ==
    IF g.selected_aperture = None THEN [g |-> Panic(g), stroke |-> 0]
    ELSE LET a == unwrap(g.selected_aperture) IN
         IF a.type = "Circle" THEN [g |-> g, stroke |-> a.diameter]
         ELSE [g |-> Log(g, "warn"), stroke |-> 0]

add_draw_segment(g, target) ==
    LET path == IF g.current_path_data = <<>> THEN <<g.position>>
                ELSE g.current_path_data
        g1 == [Log(g, "debug") EXCEPT !.current_path_data = Append(path, target)]
        r == get_path_stroke(g1)
    IN IF r.g.panicked THEN r.g
       ELSE check_bbox(r.g, target.x, target.y, r.stroke \div 2, r.stroke \div 2)

\* the arc is drawn as its chord
add_arc_segment_as_line(g, target, offset) == add_draw_segment(g, target)

\* the arc's target expands the bounding box
add_arc_segment_bbox(g, target, offset) ==
    check_bbox(Log(g, "warn"), target.x, target.y, 0, 0)

add_arc_segment(g, target, offset) == Log(g, "warn")

move_position(g, coord) == [g EXCEPT !.position = coord]

\* no early return on an empty path
create_path_from_data_always(g) ==
    LET r == get_path_stroke(g) IN
    IF r.g.panicked THEN r.g
    ELSE LET stroke == IF g.scale > 2 THEN r.stroke * 2
                       ELSE IF g.scale < 2 THEN r.stroke \div 2
                       ELSE r.stroke
             path == [kind |-> "path", stroke_width |-> stroke,
                      d |-> g.current_path_data]
         IN [r.g EXCEPT !.current_path_data = <<>>,
                        !.svg_document.children = Append(@, path)]

create_path_from_data(g) ==
    IF g.current_path_data = <<>> THEN g
    ELSE LET r == get_path_stroke(g) IN
         IF r.g.panicked THEN r.g
         ELSE LET stroke == IF g.scale > 2 THEN r.stroke * 2
                            ELSE IF g.scale < 2 THEN r.stroke \div 2
                            ELSE r.stroke
                  path == [kind |-> "path", stroke_width |-> stroke,
                           d |-> g.current_path_data]
              IN [r.g EXCEPT !.current_path_data = <<>>,
                             !.svg_document.children = Append(@, path)]

\* an unsupported aperture is counted in the bounding box as a point
place_aperture_bbox(g, target) ==
    LET g1 == Log(g, "debug") IN
    IF g1.selected_aperture = None THEN Panic(g1)
    ELSE LET a == unwrap(g1.selected_aperture) IN
         CASE a.type = "Circle" ->
                LET radius == mul_scale(a.diameter \div 2, g1.scale)
                    circle == [kind |-> "circle", cx |-> target.x, cy |-> target.y,
                               r |-> radius]
                IN check_bbox([g1 EXCEPT !.svg_document.children = Append(@, circle)],
                              target.x, target.y, radius, radius)
           [] a.type = "Rectangle" ->
                LET width == mul_scale(a.x, g1.scale)
                    height == mul_scale(a.y, g1.scale)
                    x == target.x - width \div 2
                    y == target.y - height \div 2
                    rect == [kind |-> "rect", x |-> x, y |-> y,
                             width |-> width, height |-> height]
                IN check_bbox([g1 EXCEPT !.svg_document.children = Append(@, rect)],
                              target.x, target.y, width \div 2, height \div 2)
           [] OTHER -> check_bbox(Log(g1, "error"), target.x, target.y, 0, 0)

place_aperture(g, target) ==
    LET g1 == Log(g, "debug") IN
    IF g1.selected_aperture = None THEN Panic(g1)
    ELSE LET a == unwrap(g1.selected_aperture) IN
         CASE a.type = "Circle" ->
                LET radius == mul_scale(a.diameter \div 2, g1.scale)
                    circle == [kind |-> "circle", cx |-> target.x, cy |-> target.y,
                               r |-> radius]
                IN check_bbox([g1 EXCEPT !.svg_document.children = Append(@, circle)],
                              target.x, target.y, radius, radius)
           [] a.type = "Rectangle" ->
                LET width == mul_scale(a.x, g1.scale)
                    height == mul_scale(a.y, g1.scale)
                    x == target.x - width \div 2
                    y == target.y - height \div 2
                    rect == [kind |-> "rect", x |-> x, y |-> y,
                             width |-> width, height |-> height]
                IN check_bbox([g1 EXCEPT !.svg_document.children = Append(@, rect)],
                              target.x, target.y, width \div 2, height \div 2)
           [] OTHER -> Log(g1, "error")

set_bbox(g, crop) ==
    IF crop
    THEN [Log(g, "info") EXCEPT
              !.svg_document.width = Some(f64_sub(g.max_x, g.min_x)),
              !.svg_document.height = Some(f64_sub(g.max_y, g.min_y))]
    ELSE [Log(g, "debug") EXCEPT
              !.svg_document.width = Some(g.max_x),
              !.svg_document.height = Some(g.max_y)]

----------------------------------------------------------------------------
(* build(): the arms of the match on one command *)

OperationInterpolate(g, coord, offset) ==
    IF coord = None THEN Log(g, "warn")
    ELSE LET target == from_coordinates(unwrap(coord), g.position) IN
         IF g.draw_state = "Linear"
         THEN LET g1 == add_draw_segment(g, target) IN
              IF g1.panicked THEN g1 ELSE move_position(g1, target)
         ELSE IF offset = None THEN Log(g, "warn")
              ELSE move_position(add_arc_segment(g, target, unwrap(offset)), target)

OperationMove(g, m) ==
    IF m = None THEN Log(g, "warn")
    ELSE LET target == from_coordinates(unwrap(m), g.position)
             g1 == create_path_from_data(Log(g, "debug"))
         IN IF g1.panicked THEN g1 ELSE move_position(g1, target)

OperationFlash(g, f) ==
    LET pts == from_option_coordinates(f, g.position)
        g1 == create_path_from_data(g)
        g2 == IF g1.panicked THEN g1 ELSE place_aperture(g1, pts)
    IN IF g2.panicked THEN g2 ELSE move_position(g2, pts)

\* an unknown id keeps the selection instead of panicking
DCodeSelectAperture_lenient(g, i) ==
    LET g1 == create_path_from_data(g) IN
    IF g1.panicked THEN g1
    ELSE IF i \notin DOMAIN g1.apertures THEN Log(g1, "warn")
    ELSE [g1 EXCEPT !.selected_aperture = Some(g1.apertures[i])]

\* the pending path is not flushed before the selection
DCodeSelectAperture_noflush(g, i) ==
    IF i \notin DOMAIN g.apertures THEN Panic(g)
    ELSE [g EXCEPT !.selected_aperture = Some(g.apertures[i])]

DCodeSelectAperture(g, i) ==
    LET g1 == create_path_from_data(g) IN
    IF g1.panicked THEN g1
    ELSE IF i \notin DOMAIN g1.apertures THEN Panic(g1)
    ELSE [g1 EXCEPT !.selected_aperture = Some(g1.apertures[i])]

GCodeInterpolationMode(g, im) == [g EXCEPT !.draw_state = im]

\* the error marker is unwrapped instead of skipped
Execute_unwrap_err(g, command) ==
    CASE command.op = "Err" -> Panic(g)
      [] command.op = "Interpolate" ->
            OperationInterpolate(g, command.coord, command.offset)
      [] command.op = "Move" -> OperationMove(g, command.coord)
      [] command.op = "Flash" -> OperationFlash(g, command.coord)
      [] command.op = "SelectAperture" -> DCodeSelectAperture(g, command.id)
      [] command.op = "InterpolationMode" ->
            GCodeInterpolationMode(g, command.mode)
      [] command.op = "Comment" -> Log(g, "info")
      [] command.op = "GCodeOther" -> Log(g, "error")
      [] command.op = "MCode" -> g
      [] command.op = "ExtendedCode" -> g

\* one iteration of the loop of build() on a command
Execute(g, command) ==
    CASE command.op = "Err" -> g
      [] command.op = "Interpolate" ->
            OperationInterpolate(g, command.coord, command.offset)
      [] command.op = "Move" -> OperationMove(g, command.coord)
      [] command.op = "Flash" -> OperationFlash(g, command.coord)
      [] command.op = "SelectAperture" -> DCodeSelectAperture(g, command.id)
      [] command.op = "InterpolationMode" ->
            GCodeInterpolationMode(g, command.mode)
      [] command.op = "Comment" -> Log(g, "info")
      [] command.op = "GCodeOther" -> Log(g, "error")
      [] command.op = "MCode" -> g
      [] command.op = "ExtendedCode" -> g

\* the records of the log are those of the latest call or loop iteration
Fresh(g) == [g EXCEPT !.log = <<>>]

----------------------------------------------------------------------------
(* from_file *)

\* the entries of GerberDoc.commands: valid commands and parse-error markers
ParsedEntries == {[op |-> "Err"], [op |-> "Comment"], [op |-> "Flash", coord |-> None]}

RECURSIVE SeqsUpTo(_, _)
SeqsUpTo(S, n) ==
    IF n = 0 THEN {<<>>}
    ELSE LET shorter == SeqsUpTo(S, n - 1) IN
         shorter \cup {Append(q, e) : q \in shorter, e \in S}

\* the GerberDoc values the parser yields, complete or partial
GerberDocs ==
    [apertures : {<<>>, ApertureDict},
     commands : SeqsUpTo(ParsedEntries, MaxParsed),
     format_specification : {None, Some("format")},
     units : {None, Some("Millimeters"), Some("Inches")}]

\* File::open fails, or parse(reader) returns Ok(doc) or Err((doc, error))
Files ==
    {[opened |-> FALSE]} \cup
    [opened : {TRUE}, parsed : BOOLEAN, doc : GerberDocs, error : {"parse error"}]

\* a Result<Gerber2SVG, ImportError>
Outcome(tag, renderer, message) ==
    [tag |-> tag, renderer |-> renderer, message |-> message]

\* from_gerber_doc as a Result: the checks of the document, then the renderer
try_from_gerber_doc(gerber_doc) ==
    IF gerber_doc.format_specification = None
    THEN Outcome("MissingCoordinatesFormat", None, None)
    ELSE IF gerber_doc.units = None
    THEN Outcome("MissingUnit", None, None)
    ELSE Outcome("Ok",
                 Some([gerber_doc |-> gerber_doc,
                       unit |-> unwrap(gerber_doc.units),
                       state |-> [from_gerber_doc EXCEPT
                                      !.apertures = gerber_doc.apertures]]),
                 None)

\* a partial document is fatal when it has no aperture or no command
from_file_either_empty(f) ==
    IF ~f.opened THEN Outcome("IOError", None, None)
    ELSE IF f.parsed THEN try_from_gerber_doc(f.doc)
    ELSE IF DOMAIN f.doc.apertures = {} \/ f.doc.commands = <<>>
    THEN Outcome("ParseError", None, Some(f.error))
    ELSE LET r == try_from_gerber_doc(f.doc) IN
         IF r.tag # "Ok" THEN r
         ELSE Outcome("NonFatalError", r.renderer, Some(f.error))

from_file(f) ==
    IF ~f.opened THEN Outcome("IOError", None, None)
    ELSE IF f.parsed THEN try_from_gerber_doc(f.doc)
    ELSE IF DOMAIN f.doc.apertures = {} /\ f.doc.commands = <<>>
    THEN Outcome("ParseError", None, Some(f.error))
    ELSE LET r == try_from_gerber_doc(f.doc) IN
         IF r.tag # "Ok" THEN r
         ELSE Outcome("NonFatalError", r.renderer, Some(f.error))

----------------------------------------------------------------------------
(* The state machine *)

Init ==
    /\ self = from_gerber_doc
    /\ len \in 0..MaxCmds
    /\ commands = <<>>
    /\ pc = "new"
    /\ file = None
    /\ imported = None

InitLong ==
    /\ self = from_gerber_doc
    /\ len = LongCmds
    /\ commands = <<>>
    /\ pc = "new"
    /\ file = None
    /\ imported = None

SetScale ==
    /\ pc = "new"
    /\ \E scale \in ScaleArgs : self' = set_scale(Fresh(self), scale)
    /\ UNCHANGED <<len, commands, pc, file, imported>>

BuildStart ==
    /\ pc = "new"
    /\ self' = Log(Fresh(self), "debug")
    /\ pc' = "build"
    /\ UNCHANGED <<len, commands, file, imported>>

\* the loop of build() is at a command: neither past the last one nor unwound
Walking ==
    /\ pc = "build"
    /\ ~self.panicked
    /\ Len(commands) < len

\* one iteration of the loop of build(), on command
Walk(command) ==
    /\ self' = Execute(Fresh(self), command)
    /\ commands' = Append(commands, command)
    /\ UNCHANGED <<len, pc, file, imported>>

Interpolate ==
    /\ Walking
    /\ \E coord \in OptCoordinates, offset \in OptOffset :
          Walk([op |-> "Interpolate", coord |-> coord, offset |-> offset])

Move ==
    /\ Walking
    /\ \E m \in OptCoordinates : Walk([op |-> "Move", coord |-> m])

Flash ==
    /\ Walking
    /\ \E f \in OptCoordinates : Walk([op |-> "Flash", coord |-> f])

SelectAperture ==
    /\ Walking
    /\ \E i \in ApertureIds : Walk([op |-> "SelectAperture", id |-> i])

SetInterpolationMode ==
    /\ Walking
    /\ \E im \in InterpolationModes :
          Walk([op |-> "InterpolationMode", mode |-> im])

Comment ==
    /\ Walking
    /\ Walk([op |-> "Comment"])

UnsupportedGCode ==
    /\ Walking
    /\ Walk([op |-> "GCodeOther"])

MCode ==
    /\ Walking
    /\ Walk([op |-> "MCode"])

ExtendedCode ==
    /\ Walking
    /\ Walk([op |-> "ExtendedCode"])

ParseError ==
    /\ Walking
    /\ Walk([op |-> "Err"])

\* the loop of build() ends and build() returns
BuildReturn ==
    /\ pc = "build"
    /\ ~self.panicked
    /\ Len(commands) = len
    /\ self' = Fresh(self)
    /\ pc' = "built"
    /\ UNCHANGED <<len, commands, file, imported>>

\* save_svg / to_string
SaveSvg ==
    /\ pc \in {"new", "built", "final"}
    /\ \E crop \in BOOLEAN : self' = set_bbox(Fresh(self), crop)
    /\ pc' = "final"
    /\ UNCHANGED <<len, commands, file, imported>>

Next ==
    \/ SetScale
    \/ BuildStart
    \/ Interpolate
    \/ Move
    \/ Flash
    \/ SelectAperture
    \/ SetInterpolationMode
    \/ Comment
    \/ UnsupportedGCode
    \/ MCode
    \/ ExtendedCode
    \/ ParseError
    \/ BuildReturn
    \/ SaveSvg

Spec == Init /\ [][Next]_vars

InitImport ==
    /\ self = from_gerber_doc
    /\ len = 0
    /\ commands = <<>>
    /\ pc = "file"
    /\ file \in {Some(f) : f \in Files}
    /\ imported = None

FromFile ==
    /\ pc = "file"
    /\ imported' = Some(from_file(unwrap(file)))
    /\ pc' = "imported"
    /\ UNCHANGED <<self, len, commands, file>>

NextImport == FromFile

\* from_file on every file
SpecImport == InitImport /\ [][NextImport]_vars

\* the same machine on streams of LongCmds commands
SpecLong == InitLong /\ [][Next]_vars

----------------------------------------------------------------------------
(* Claims *)

Children == self.svg_document.children

Built == pc = "built"

LastCommand == commands[Len(commands)]

\* the step is an iteration of the loop of build()
WalkStep == commands' # commands

\* the bounding box contains the silhouette of primitive e
BBoxHolds(g, e) ==
    CASE e.kind = "circle" ->
            /\ g.min_x <= e.cx - e.r /\ g.max_x >= e.cx + e.r
            /\ g.min_y <= e.cy - e.r /\ g.max_y >= e.cy + e.r
      [] e.kind = "rect" ->
            /\ g.min_x <= e.x /\ g.max_x >= e.x + e.width
            /\ g.min_y <= e.y /\ g.max_y >= e.y + e.height
      [] e.kind = "path" ->
            \A k \in 1..Len(e.d) :
                /\ 2 * g.min_x <= 2 * e.d[k].x - e.stroke_width
                /\ 2 * g.max_x >= 2 * e.d[k].x + e.stroke_width
                /\ 2 * g.min_y <= 2 * e.d[k].y - e.stroke_width
                /\ 2 * g.max_y >= 2 * e.d[k].y + e.stroke_width

\* C1: after build(), the bounding box contains the silhouette of every
\* emitted primitive: a circle's square, a rectangle's origin to origin+size,
\* every vertex of a polyline padded by half of its emitted stroke width.
C1_BBoxContainsPrimitives ==
    Built => \A k \in 1..Len(Children) : BBoxHolds(self, Children[k])

\* C2: when build() returns, the path accumulator is empty (a run pending at
\* the end of the stream has been emitted).
C2_PathEmptyWhenBuilt ==
    Built => self.current_path_data = <<>>

IsPath(e) == e.kind = "path"

Polylines == SelectSeq(Children, IsPath)

\* the segments of a polyline, in order
SegmentsOf(e) == [k \in 1..(Len(e.d) - 1) |-> <<e.d[k], e.d[k + 1]>>]

\* a command that ends a run of Linear Interpolates
Delimits(c) ==
    \/ c.op \in {"Flash", "SelectAperture"}
    \/ c.op = "Move" /\ c.coord # None

\* The maximal runs of consecutive Linear Interpolates of cmds[k..], each the
\* sequence of its position-to-target segments; run is the run that is open
\* at k, runs the runs closed before k.
RECURSIVE RunsOf(_, _, _, _, _, _)
RunsOf(cmds, k, mode, pos, run, runs) ==
    IF k > Len(cmds) THEN (IF run = <<>> THEN runs ELSE Append(runs, run))
    ELSE LET c == cmds[k]
             closed == IF run = <<>> THEN runs ELSE Append(runs, run)
         IN CASE c.op = "Interpolate" /\ c.coord # None ->
                    LET target == from_coordinates(unwrap(c.coord), pos) IN
                    IF mode = "Linear"
                    THEN RunsOf(cmds, k + 1, mode, target,
                                Append(run, <<pos, target>>), runs)
                    ELSE RunsOf(cmds, k + 1, mode,
                                IF c.offset = None THEN pos ELSE target, run, runs)
              [] c.op \in {"Move", "Flash"} /\ Delimits(c) ->
                    RunsOf(cmds, k + 1, mode,
                           from_option_coordinates(c.coord, pos), <<>>, closed)
              [] c.op = "SelectAperture" ->
                    RunsOf(cmds, k + 1, mode, pos, <<>>, closed)
              [] c.op = "InterpolationMode" ->
                    RunsOf(cmds, k + 1, c.mode, pos, run, runs)
              [] OTHER -> RunsOf(cmds, k + 1, mode, pos, run, runs)

\* C3: the built document holds exactly one polyline per maximal run of
\* consecutive Linear Interpolates delimited by Move, Flash or SelectAperture,
\* and each polyline holds exactly the segments of its run, in order.
C3_OnePolylinePerRun ==
    Built =>
        LET runs == RunsOf(commands, 1, "Linear", Point(0, 0), <<>>, <<>>) IN
        /\ Len(Polylines) = Len(runs)
        /\ \A k \in 1..Len(runs) : SegmentsOf(Polylines[k]) = runs[k]

\* the children the step adds to the document
Emitted == {k \in 1..Len(self'.svg_document.children) : k > Len(Children)}

\* diameter x scale, then doubled above scale 1.0 and halved below it
ScaledQuirkStroke(a, scale) ==
    IF a.type # "Circle" THEN 0
    ELSE LET w == mul_scale(a.diameter, scale) IN
         IF scale > 2 THEN w * 2 ELSE IF scale < 2 THEN w \div 2 ELSE w

\* the diameter, doubled above scale 1.0 and halved below it
QuirkStroke(a, scale) ==
    IF a.type # "Circle" THEN 0
    ELSE IF scale > 2 THEN a.diameter * 2
    ELSE IF scale < 2 THEN a.diameter \div 2
    ELSE a.diameter

\* C4 as claimed: the stroke width of every emitted polyline is the selected
\* Circle's diameter multiplied by the scale, then doubled when scale > 1.0,
\* halved when scale < 1.0; 0 when the aperture is not a Circle.
C4_StrokeScaledThenQuirk ==
    [][\A k \in Emitted :
          IsPath(self'.svg_document.children[k]) =>
              self'.svg_document.children[k].stroke_width =
                  ScaledQuirkStroke(unwrap(self.selected_aperture), self.scale)]_vars

\* C4 amended: the stroke width of every emitted polyline is the selected
\* Circle's diameter itself (the scale does not multiply it), doubled when
\* scale > 1.0, halved when scale < 1.0, unchanged at 1.0; 0 when the selected
\* aperture is not a Circle.
C4_StrokeQuirkOnly ==
    [][\A k \in Emitted :
          IsPath(self'.svg_document.children[k]) =>
              self'.svg_document.children[k].stroke_width =
                  QuirkStroke(unwrap(self.selected_aperture), self.scale)]_vars

\* a polyline of a Circle aperture emitted at scale 0.5 or 2.0
C4_Witness ==
    /\ self.scale # 2
    /\ \E k \in 1..Len(Children) : IsPath(Children[k]) /\ Children[k].stroke_width > 0

\* build() of the stream cmds[k..] from g
RECURSIVE Replay(_, _, _)
Replay(g, cmds, k) ==
    IF k > Len(cmds) \/ g.panicked THEN g
    ELSE Replay(Execute(Fresh(g), cmds[k]), cmds, k + 1)

\* primitive f is primitive e drawn at twice the scale
DoubledPrimitive(e, f) ==
    /\ f.kind = e.kind
    /\ CASE e.kind = "circle" -> f.cx = e.cx /\ f.cy = e.cy /\ f.r = 2 * e.r
          [] e.kind = "rect" ->
                /\ f.width = 2 * e.width /\ f.height = 2 * e.height
                /\ 2 * f.x + f.width = 2 * e.x + e.width
                /\ 2 * f.y + f.height = 2 * e.y + e.height
          [] e.kind = "path" -> f.d = e.d

\* C5: the build of the same stream at twice the scale has the same centres
\* with twice the radius, width and height, the same polyline vertices and
\* the same final position.
C5_DoubleScaleDoublesDimensions ==
    Built =>
        LET twin == Replay(set_scale(from_gerber_doc, 2 * self.scale), commands, 1)
            other == twin.svg_document.children
        IN /\ ~twin.panicked
           /\ twin.scale = 2 * self.scale
           /\ Len(other) = Len(Children)
           /\ \A k \in 1..Len(Children) : DoubledPrimitive(Children[k], other[k])
           /\ twin.position = self.position

\* a built document with a flashed rectangle away from the origin and a polyline
C5_Witness ==
    /\ Built
    /\ \E k \in 1..Len(Children) : Children[k].kind = "rect" /\ Children[k].x > 0
    /\ \E k \in 1..Len(Children) : IsPath(Children[k])

\* the renderer but for its scale and its log
BesidesScale(g) == [g EXCEPT !.scale = 0, !.log = <<>>]

\* C6: the scale starts at 1; set_scale(s) with s <= 0 leaves the scale and
\* every other field as they are, set_scale(s) with s > 0 makes s the scale
\* and changes nothing else.
C6_SetScale ==
    /\ self.scale = 2
    /\ [][\A s \in ScaleArgs :
            (pc = "new" /\ pc' = "new" /\ self' = set_scale(Fresh(self), s)) =>
                /\ BesidesScale(self') = BesidesScale(self)
                /\ self'.scale = (IF s <= 0 THEN self.scale ELSE s)]_vars

\* a rejected set_scale after the scale was set to 2.0
C6_Witness ==
    pc = "new" /\ self.scale = 4 /\ self.log = <<"warn">>

BBox(g) == <<g.min_x, g.max_x, g.min_y, g.max_y>>

\* C7: a Move, Flash or SelectAperture that arrives when no segment is
\* pending emits no polyline; the Move and the SelectAperture leave the
\* document and the bounding box unchanged, with or without an aperture.
C7_EmptyFlushEmitsNothing ==
    [][(WalkStep /\ self.current_path_data = <<>> /\ Delimits(LastCommand')) =>
          /\ \A k \in Emitted : ~IsPath(self'.svg_document.children[k])
          /\ LastCommand'.op # "Flash" =>
                /\ self'.svg_document = self.svg_document
                /\ BBox(self') = BBox(self)
          /\ LastCommand'.op = "Move" => ~self'.panicked]_vars

\* a Move with a coordinate was walked with nothing pending and no aperture
C7_Witness ==
    /\ Len(commands) = 1
    /\ LastCommand.op = "Move" /\ LastCommand.coord # None
    /\ self.selected_aperture = None
    /\ self.position # Point(0, 0)
    /\ ~self.panicked

\* an Interpolate that carries no coordinate axis value
NoAxis(c) ==
    /\ c.op = "Interpolate"
    /\ \/ c.coord = None
       \/ unwrap(c.coord).x = None /\ unwrap(c.coord).y = None

\* C8: with an aperture selected, in every interpolation mode, an Interpolate
\* whose coordinate is absent or has neither x nor y changes neither the
\* position, the path accumulator, the document nor the bounding box, and
\* records exactly one diagnostic.
C8_NoAxisInterpolateIsNoOp ==
    [][(WalkStep /\ NoAxis(LastCommand') /\ self.selected_aperture # None) =>
          /\ self'.position = self.position
          /\ self'.current_path_data = self.current_path_data
          /\ self'.svg_document = self.svg_document
          /\ BBox(self') = BBox(self)
          /\ Len(self'.log) = 1]_vars

\* C9: at scale 1, SelectAperture of a Circle of diameter d followed by a
\* Flash without coordinate emits exactly one circle centred at (0,0) of
\* radius d/2, leaves the position at (0,0) and makes the bounding box
\* [-d/2, d/2] x [-d/2, d/2].
C9_SelectThenFlash ==
    \A id \in DOMAIN ApertureDict :
        ( /\ self.scale = 2
          /\ ApertureDict[id].type = "Circle"
          /\ commands = <<[op |-> "SelectAperture", id |-> id],
                          [op |-> "Flash", coord |-> None]>> ) =>
            LET half == ApertureDict[id].diameter \div 2 IN
            /\ Children = <<[kind |-> "circle", cx |-> 0, cy |-> 0, r |-> half]>>
            /\ self.position = Point(0, 0)
            /\ BBox(self) = <<-half, half, -half, half>>

\* the scenario with the Circle of diameter 2.0: radius 1.0, box [-1,1] x [-1,1]
C9_Witness ==
    /\ self.scale = 2
    /\ commands = <<[op |-> "SelectAperture", id |-> 1],
                    [op |-> "Flash", coord |-> None]>>
    /\ Children = <<[kind |-> "circle", cx |-> 0, cy |-> 0, r |-> 8]>>
    /\ BBox(self) = <<-8, 8, -8, 8>>

\* C10: at scale 1, the whole stream SelectAperture(Circle d), Move(p),
\* InterpolationMode(Linear), Interpolate(q) builds a document of exactly one
\* polyline [p, q] of stroke width d and a bounding box equal to the extent of
\* the segment padded by d/2 on every side.
C10_MoveThenLine ==
    \A id \in DOMAIN ApertureDict, c1 \in Coordinates, c2 \in Coordinates,
       off \in OptOffset :
        ( /\ Built
          /\ self.scale = 2
          /\ ApertureDict[id].type = "Circle"
          /\ commands = <<[op |-> "SelectAperture", id |-> id],
                          [op |-> "Move", coord |-> Some(c1)],
                          [op |-> "InterpolationMode", mode |-> "Linear"],
                          [op |-> "Interpolate", coord |-> Some(c2),
                           offset |-> off]>> ) =>
            LET p == from_coordinates(c1, Point(0, 0))
                q == from_coordinates(c2, p)
                d == ApertureDict[id].diameter
                half == d \div 2
            IN /\ Children = <<[kind |-> "path", stroke_width |-> d, d |-> <<p, q>>]>>
               /\ BBox(self) = <<f64_min(p.x, q.x) - half, f64_max(p.x, q.x) + half,
                                 f64_min(p.y, q.y) - half, f64_max(p.y, q.y) + half>>

IsValid(c) == c.op # "Err"

\* the renderer but for the log records of its latest step
Core(g) == [g EXCEPT !.log = <<>>]

\* C11: build() skips every parse-error marker and goes on: at every point of
\* the walk, and when build() returns, the document, the bounding box and the
\* plotter state are those of building only the valid commands walked so far.
C11_ErrorMarkersSkipped ==
    pc \in {"build", "built"} =>
        Core(self) =
            Core(Replay(set_scale(from_gerber_doc, self.scale),
                        SelectSeq(commands, IsValid), 1))

\* a built stream with a flash after a parse-error marker
C11_Witness ==
    /\ Built
    /\ Len(commands) = 3
    /\ commands[2].op = "Err"
    /\ commands[3].op = "Flash"
    /\ Children # <<>>

\* C12: finalizing a renderer for which no primitive was emitted gives a
\* canvas of width 0 and height 0, with and without crop (no infinite extent
\* reaches the width or the height).
C12_EmptyDocumentZeroCanvas ==
    (pc = "final" /\ Children = <<>>) =>
        /\ self.svg_document.width = Some(0)
        /\ self.svg_document.height = Some(0)

\* a Flash, or a Linear Interpolate with a coordinate, with no aperture selected
FatalWithoutAperture(g, c) ==
    /\ g.selected_aperture = None
    /\ \/ c.op = "Flash"
       \/ c.op = "Interpolate" /\ c.coord # None /\ g.draw_state = "Linear"

\* C13: a Flash or a stroke-appending Linear Interpolate with no aperture
\* selected stops the processing at that command: the document gets no
\* primitive, and no step is taken once the processing has stopped.
C13_NoApertureIsFatal ==
    [][/\ ~self.panicked
       /\ (WalkStep /\ FatalWithoutAperture(self, LastCommand')) =>
              /\ self'.panicked
              /\ self'.svg_document = self.svg_document]_vars

\* the walk stopped at a Flash with commands of the stream left
C13_Witness ==
    /\ self.panicked
    /\ commands # <<>>
    /\ LastCommand.op = "Flash"
    /\ self.selected_aperture = None
    /\ Len(commands) < len

\* C14: SelectAperture of an id the dictionary does not hold stops the
\* processing; of a known id it makes the dictionary's entry the selected
\* aperture.  The selected aperture is always none or an entry of the
\* dictionary, and the dictionary is never modified.
C14_SelectAperture ==
    /\ [](/\ self.apertures = ApertureDict
          /\ \/ self.selected_aperture = None
             \/ \E id \in DOMAIN ApertureDict :
                    self.selected_aperture = Some(ApertureDict[id]))
    /\ [][/\ ~self.panicked
           /\ (WalkStep /\ LastCommand'.op = "SelectAperture") =>
                  IF LastCommand'.id \in DOMAIN self.apertures
                  THEN /\ ~self'.panicked
                       /\ self'.selected_aperture =
                              Some(self.apertures[LastCommand'.id])
                  ELSE /\ self'.panicked
                       /\ self'.selected_aperture = self.selected_aperture]_vars

\* the walk stopped at an unknown id after the Rectangle was selected
C14_Witness ==
    /\ self.panicked
    /\ commands = <<[op |-> "SelectAperture", id |-> 3],
                    [op |-> "SelectAperture", id |-> 9]>>
    /\ self.selected_aperture = Some(ApertureDict[3])
    /\ Len(commands) < len

\* C17: the accumulator is empty right after every Move with a coordinate,
\* Flash and SelectAperture, and the selected aperture does not change while
\* segments are pending: the aperture read when a polyline is emitted is the
\* one that was selected when each of its segments was appended.
C17_PathNeverSpansDelimiter ==
    [][WalkStep =>
          /\ Delimits(LastCommand') => self'.current_path_data = <<>>
          /\ (self.current_path_data # <<>> /\ self'.current_path_data # <<>>) =>
                self'.selected_aperture = self.selected_aperture
          /\ \A k \in Emitted :
                IsPath(self'.svg_document.children[k]) =>
                    /\ self.current_path_data = self'.svg_document.children[k].d
                    /\ self.selected_aperture # None]_vars

\* a pending segment was emitted by a SelectAperture of another aperture
C17_Witness ==
    /\ Len(commands) = 3
    /\ commands[1].op = "SelectAperture"
    /\ commands[2].op = "Interpolate"
    /\ commands[3].op = "SelectAperture"
    /\ self.selected_aperture # Some(ApertureDict[commands[1].id])
    /\ Len(Children) = 1
    /\ self.current_path_data = <<>>
    /\ ~self.panicked

Circular(g) == g.draw_state # "Linear"

\* C18: in a circular mode, an Interpolate with a coordinate and no offset
\* changes neither the position nor the document, the accumulator or the
\* bounding box; with a coordinate and an offset it changes only the
\* position, to the resolved target.
C18_CircularInterpolate ==
    [][(/\ WalkStep
        /\ Circular(self)
        /\ LastCommand'.op = "Interpolate"
        /\ LastCommand'.coord # None) =>
          /\ self'.svg_document = self.svg_document
          /\ self'.current_path_data = self.current_path_data
          /\ BBox(self') = BBox(self)
          /\ ~self'.panicked
          /\ self'.position =
                IF LastCommand'.offset = None THEN self.position
                ELSE from_coordinates(unwrap(LastCommand'.coord), self.position)]_vars

\* a circular Interpolate with an offset moved the position
C18_Witness ==
    /\ Len(commands) = 2
    /\ commands[1].op = "InterpolationMode"
    /\ Circular(self)
    /\ LastCommand.op = "Interpolate"
    /\ LastCommand.offset # None
    /\ self.position = Point(40, 40)
    /\ BBox(self) = <<Inf, NegInf, Inf, NegInf>>

\* C19: whenever the path accumulator is non-empty (and the walk has not
\* stopped), its last point is the current plotter position.
C19_PathEndsAtPosition ==
    (~self.panicked /\ self.current_path_data # <<>>) =>
        self.current_path_data[Len(self.current_path_data)] = self.position

\* C20 as claimed: while the document holds no primitive the bounding box
\* has its initial value.
C20_NoPrimitiveInitialBBox ==
    Children = <<>> => BBox(self) = <<Inf, NegInf, Inf, NegInf>>

\* C20 amended: while the document holds no primitive and no segment is
\* pending in the path accumulator, the bounding box has its initial value.
C20_NothingDrawnInitialBBox ==
    (Children = <<>> /\ self.current_path_data = <<>>) =>
        BBox(self) = <<Inf, NegInf, Inf, NegInf>>

\* an unsupported aperture was flashed away from the origin: nothing drawn
C20_Witness ==
    /\ Len(commands) = 2
    /\ commands[1].op = "SelectAperture"
    /\ commands[2].op = "Flash"
    /\ self.position # Point(0, 0)
    /\ Children = <<>>
    /\ self.current_path_data = <<>>
    /\ ~self.panicked

\* from_file has returned from a parse failure
ParseFailed == pc = "imported" /\ unwrap(file).opened /\ ~unwrap(file).parsed

Recovered == SelectSeq(unwrap(file).doc.commands, IsValid)

Result == unwrap(imported)

C16_DiagnosticNeverDropped ==
    (ParseFailed /\ Recovered # <<>>) =>
        /\ Result.tag = "NonFatalError"
        /\ Result.renderer # None
        /\ Result.message = Some(unwrap(file).error)

\* the selected aperture is an Obround, a Polygon or a Macro
Unsupported(g) ==
    /\ g.selected_aperture # None
    /\ unwrap(g.selected_aperture).type \in {"Obround", "Polygon", "Macro"}

\* C21: a Flash walked while an Obround, Polygon or Macro aperture is selected
\* emits no circle and no rectangle and leaves the bounding box as it was; it
\* does not panic: the pending path, if any, is emitted as one polyline and
\* the accumulator is empty afterwards, the position becomes the target
\* resolved against the previous position, and the walk goes on.
C21_UnsupportedFlash ==
    [][(WalkStep /\ ~self.panicked /\ Unsupported(self)
          /\ LastCommand'.op = "Flash") =>
          /\ \A k \in Emitted : IsPath(self'.svg_document.children[k])
          /\ self'.svg_document.children =
                IF self.current_path_data = <<>> THEN Children
                ELSE Append(Children, [kind |-> "path", stroke_width |-> 0,
                                       d |-> self.current_path_data])
          /\ BBox(self') = BBox(self)
          /\ ~self'.panicked
          /\ self'.current_path_data = <<>>
          /\ self'.position =
                from_option_coordinates(LastCommand'.coord, self.position)
          /\ self'.selected_aperture = self.selected_aperture]_vars

\* an unsupported aperture was selected, a segment drawn and a Flash walked at
\* another target: the segment was flushed, no shape emitted, position moved
C21_Witness ==
    /\ Len(commands) = 3
    /\ commands[1].op = "SelectAperture"
    /\ commands[2].op = "Interpolate"
    /\ LastCommand.op = "Flash" /\ LastCommand.coord # None
    /\ Unsupported(self)
    /\ ~self.panicked
    /\ Len(Children) = 1 /\ IsPath(Children[1])
    /\ self.current_path_data = <<>>
    /\ self.position # Point(0, 0)

====
